---- MODULE Spec2Model ----
(***************************************************************************)
(* A model of the syslog agent (claude_agents/syslog_agent.py and the CLI  *)
(* entry point claude_agents/__main__.py).                                 *)
(*                                                                         *)
(* Text is modelled as TLA+ strings, i.e. sequences of characters: the     *)
(* line parser below scans the characters of a line the way the regular    *)
(* expression of parse_log_entry does.                                     *)
(***************************************************************************)
EXTENDS Integers, Sequences, FiniteSets, TLC

VARIABLES
    gen,        \* the parts the input line of parse_log_entry was assembled from
    line,       \* the argument of parse_log_entry
    year,       \* datetime.now().year at the time of the call
    result,     \* what parse_log_entry returned (Pending before the call)
    matches,    \* what analyze_entry returned for the parsed entry
    ppc,        \* "line": not parsed yet; "parsed"; "classified"; "off": no parser call
    call,       \* the method that was called: analyze_syslog, monitor_syslog, analyze_with_claude
    tail_lines, \* the tail_lines argument of analyze_syslog and read_syslog
    file,       \* the file at syslog_path: its state and, when it is readable, its lines
    pc,         \* where the coroutine stands
    entries,    \* what read_syslog returned (analyze_with_claude's argument)
    response_text, \* analyze_with_claude's accumulator
    n_msgs,     \* messages the response stream of query() has yielded
    analysis,   \* what analyze_with_claude returned
    report,     \* what analyze_syslog returned
    queried,    \* whether query() was called in this run of analyze_syslog
    console,    \* the kinds of the messages printed since analyze_syslog was last entered
    cancel_pending, \* a cancellation asked of the task and not yet delivered
    failure,    \* history: what failed in the current run of analyze_syslog
    prev_failure, \* history: what failed in the monitoring loop's previous iteration
    query_error,  \* history: the message of the exception query() raised, "" if none
    stopped_at  \* history: where the coroutine stood when a stop request ended it

pvars == <<gen, line, result, matches, ppc>>

avars == <<call, tail_lines, file, pc, entries, response_text, n_msgs, analysis, report,
           queried, console, cancel_pending, failure, prev_failure, query_error, stopped_at>>

vars == <<pvars, year, avars>>

(***************************************************************************)
(* Characters and character classes.                                       *)
(***************************************************************************)

\* The i-th character of s as a one-character string; "" outside the string.
Ch(s, i) == IF i \in 1..Len(s) THEN SubSeq(s, i, i) ELSE ""

\* Characters str.strip() removes and the regular expression's \s matches.
Whitespace == {" ", "\t", "\n", "\r"}

\* The regular expression's \d.
Digits == {"0", "1", "2", "3", "4", "5", "6", "7", "8", "9"}

UpperCase == "ABCDEFGHIJKLMNOPQRSTUVWXYZ"

LowerCase == "abcdefghijklmnopqrstuvwxyz"

Letters == {Ch(UpperCase, i) : i \in 1..Len(UpperCase)} \cup {Ch(LowerCase, i) : i \in 1..Len(LowerCase)}

\* The regular expression's \w.
WordChars == Letters \cup Digits \cup {"_"}

\* str.lower() on one character.
lower_char(c) ==
    IF \E i \in 1..Len(UpperCase) : Ch(UpperCase, i) = c
    THEN Ch(LowerCase, CHOOSE i \in 1..Len(UpperCase) : Ch(UpperCase, i) = c)
    ELSE c

RECURSIVE lower(_)
\* str.lower(): the case folding of a case-insensitive match.
lower(s) == IF s = "" THEN "" ELSE lower_char(Ch(s, 1)) \o lower(SubSeq(s, 2, Len(s)))

RECURSIVE lstrip(_)
lstrip(s) == IF s # "" /\ Ch(s, 1) \in Whitespace THEN lstrip(SubSeq(s, 2, Len(s))) ELSE s

RECURSIVE rstrip(_)
rstrip(s) == IF s # "" /\ Ch(s, Len(s)) \in Whitespace THEN rstrip(SubSeq(s, 1, Len(s) - 1)) ELSE s

\* A slip strip could be replaced by: only the leading whitespace is removed.
strip_leading_only(s) == lstrip(s)

\* str.strip(): leading and trailing whitespace removed.
strip(s) == rstrip(lstrip(s))

RECURSIVE SkipIn(_, _, _)
\* Greedy repetition of a character class: the first position at or after i
\* whose character is not in class.
SkipIn(s, i, class) == IF Ch(s, i) \in class THEN SkipIn(s, i + 1, class) ELSE i

RECURSIVE SkipNotIn(_, _, _)
\* Greedy repetition of a negated class: the first position at or after i that is
\* past the end or whose character is in class.
SkipNotIn(s, i, class) ==
    IF i <= Len(s) /\ Ch(s, i) \notin class THEN SkipNotIn(s, i + 1, class) ELSE i

(***************************************************************************)
(* parse_log_entry: the regular expression, strptime and the LogEntry.     *)
(***************************************************************************)

\* pattern.match found nothing.
NoMatch == [matched |-> FALSE]

\* An optional group that did not take part in the match (Python's None).
NoGroup == [present |-> FALSE, text |-> ""]

\* The regular expression of parse_log_entry, matched at the start of s:
\*   ^(\w{3}\s+\d{1,2}\s+\d{2}:\d{2}:\d{2})\s+(\S+)\s+([^:\[\s]+)(?:\[(\d+)\])?:\s*(.*)
\* Every repetition is over a class disjoint from what must follow it, so the
\* greedy left-to-right scan finds the match whenever backtracking would.
pattern_match(s) ==
    LET m1 == 4                                   \* after \w{3}
        d0 == SkipIn(s, m1, Whitespace)           \* after \s+
        d1 == SkipIn(s, d0, Digits)               \* after \d{1,2}
        t0 == SkipIn(s, d1, Whitespace)           \* after \s+
        t1 == t0 + 8                              \* after \d{2}:\d{2}:\d{2}
        h0 == SkipIn(s, t1, Whitespace)           \* after \s+
        h1 == SkipNotIn(s, h0, Whitespace)        \* after (\S+)
        p0 == SkipIn(s, h1, Whitespace)           \* after \s+
        p1 == SkipNotIn(s, p0, Whitespace \cup {":", "["})   \* after ([^:\[\s]+)
        g1 == SkipIn(s, p1 + 1, Digits)           \* after \[(\d+
        has_pid == Ch(s, p1) = "[" /\ g1 > p1 + 1 /\ Ch(s, g1) = "]"
        c0 == IF has_pid THEN g1 + 1 ELSE p1      \* where the ":" must be
        b0 == SkipIn(s, c0 + 1, Whitespace)       \* after :\s*
        b1 == SkipNotIn(s, b0, {"\n"})            \* after (.*), which stops at a newline
    IN  IF /\ \A i \in 1..3 : Ch(s, i) \in WordChars
           /\ d0 > m1
           /\ d1 - d0 \in {1, 2}
           /\ t0 > d1
           /\ \A i \in {0, 1, 3, 4, 6, 7} : Ch(s, t0 + i) \in Digits
           /\ \A i \in {2, 5} : Ch(s, t0 + i) = ":"
           /\ h0 > t1
           /\ h1 > h0
           /\ p0 > h1
           /\ p1 > p0
           /\ Ch(s, c0) = ":"
        THEN [matched |-> TRUE,
              timestamp_str |-> SubSeq(s, 1, t1 - 1),
              hostname |-> SubSeq(s, h0, h1 - 1),
              process |-> SubSeq(s, p0, p1 - 1),
              pid_str |-> IF has_pid
                          THEN [present |-> TRUE, text |-> SubSeq(s, p1 + 1, g1 - 1)]
                          ELSE NoGroup,
              message |-> SubSeq(s, b0, b1 - 1)]
        ELSE NoMatch

\* The value of one decimal digit.
digit_value(c) == CHOOSE d \in 0..9 : Ch("0123456789", d + 1) = c

RECURSIVE int(_)
\* int(str) on a string of decimal digits.
int(s) ==
    IF s = "" THEN 0
    ELSE 10 * int(SubSeq(s, 1, Len(s) - 1)) + digit_value(Ch(s, Len(s)))

\* The locale's abbreviated month names, as %b matches them (case-insensitively).
MonthNames == <<"jan", "feb", "mar", "apr", "may", "jun", "jul", "aug", "sep", "oct", "nov", "dec">>

is_leap(y) == y % 4 = 0 /\ (y % 100 # 0 \/ y % 400 = 0)

days_in_month(y, m) ==
    IF m = 2 THEN (IF is_leap(y) THEN 29 ELSE 28)
    ELSE IF m \in {4, 6, 9, 11} THEN 30 ELSE 31

\* strptime raised ValueError.
ValueError == [kind |-> "ValueError"]

\* The fields strptime reads from the text: %b as a month number (0: no month of
\* that name), %d, %H, %M and %S as numbers.
strptime_fields(y, timestamp_str) ==
    LET d0 == SkipIn(timestamp_str, 4, Whitespace)
        d1 == SkipIn(timestamp_str, d0, Digits)
        t0 == SkipIn(timestamp_str, d1, Whitespace)
        b == lower(SubSeq(timestamp_str, 1, 3))
    IN  [kind |-> "datetime",
         year |-> y,
         month |-> IF \E m \in 1..12 : MonthNames[m] = b
                   THEN CHOOSE m \in 1..12 : MonthNames[m] = b ELSE 0,
         day |-> int(SubSeq(timestamp_str, d0, d1 - 1)),
         hour |-> int(SubSeq(timestamp_str, t0, t0 + 1)),
         minute |-> int(SubSeq(timestamp_str, t0 + 3, t0 + 4)),
         second |-> int(SubSeq(timestamp_str, t0 + 6, t0 + 7))]

\* datetime.strptime(f"{y} {timestamp_str}", "%Y %b %d %H:%M:%S"): the datetime, or
\* ValueError when the text does not fit the format or names no calendar date-time.
strptime(y, timestamp_str) ==
    LET d0 == SkipIn(timestamp_str, 4, Whitespace)
        d1 == SkipIn(timestamp_str, d0, Digits)
        t0 == SkipIn(timestamp_str, d1, Whitespace)
        b == lower(SubSeq(timestamp_str, 1, 3))
        shape == /\ d0 > 4
                 /\ d1 - d0 \in {1, 2}
                 /\ t0 > d1
                 /\ \A i \in {0, 1, 3, 4, 6, 7} : Ch(timestamp_str, t0 + i) \in Digits
                 /\ \A i \in {2, 5} : Ch(timestamp_str, t0 + i) = ":"
                 /\ Len(timestamp_str) = t0 + 7
        dt == strptime_fields(y, timestamp_str)
    IN  IF /\ shape
           /\ dt.month \in 1..12
           /\ dt.day \in 1..days_in_month(y, dt.month)
           /\ dt.hour \in 0..23
           /\ dt.minute \in 0..59
           /\ dt.second \in 0..59
        THEN dt
        ELSE ValueError

\* Python's None, as parse_log_entry returns it.
None == [kind |-> "None"]

\* LogEntry.pid of a line without a pid segment.
NoPid == <<>>

\* A slip: the converted number, not the matched text, decides whether a pid is there.
pid_of_nonzero(pid_str) ==
    IF pid_str.present /\ int(pid_str.text) # 0 THEN <<int(pid_str.text)>> ELSE NoPid

\* int(pid_str) if pid_str else None: a one-element tuple holds a pid that is there.
pid_of(pid_str) ==
    IF pid_str.present /\ pid_str.text # "" THEN <<int(pid_str.text)>> ELSE NoPid

\* The try block without its except clause: the ValueError goes on to the caller.
timestamp_or_raise(outcome) == outcome

\* try: timestamp = strptime(...) except ValueError: return None.  What the try
\* statement leaves: the timestamp, or None to return.
timestamp_or_none(outcome) == IF outcome.kind = "ValueError" THEN None ELSE outcome

\* SyslogAgent.parse_log_entry(line), called in year y: None, a LogEntry, or (were an
\* exception to leave the method) the exception.
parse_log_entry(l, y) ==
    LET match == pattern_match(strip(l))
        timestamp == timestamp_or_none(strptime(y, match.timestamp_str))
    IN  IF ~match.matched THEN None
        ELSE IF timestamp.kind # "datetime" THEN timestamp
        ELSE [kind |-> "LogEntry",
              timestamp |-> timestamp,
              hostname |-> match.hostname,
              process |-> match.process,
              pid |-> pid_of(match.pid_str),
              message |-> match.message,
              raw_line |-> strip(l)]

(***************************************************************************)
(* The pattern catalog and the classifier (agent.patterns and              *)
(* agent.analyze_entry, which test_syslog_agent.py calls).                 *)
(***************************************************************************)

RECURSIVE contains(_, _)
\* Substring search: whether needle occurs in haystack.
contains(haystack, needle) ==
    IF Len(haystack) < Len(needle) THEN FALSE
    ELSE IF SubSeq(haystack, 1, Len(needle)) = needle THEN TRUE
    ELSE contains(SubSeq(haystack, 2, Len(haystack)), needle)

\* The rule catalog, in catalog order.
patterns == <<
    [name |-> "Authentication Failure", indicators |-> {"authentication failure", "failed login"},
     severity |-> "error"],
    [name |-> "Disk Space Warning", indicators |-> {"disk full", "no space left"},
     severity |-> "warning"] >>

\* A matcher that compares the message as written, without folding its case.
rule_matches_case_sensitive(rule, entry) ==
    \E ind \in rule.indicators : contains(entry.message, ind)

\* One rule's matcher: a case-insensitive search of the entry's message.
rule_matches(rule, entry) ==
    \E ind \in rule.indicators : contains(lower(entry.message), ind)

RECURSIVE classify(_, _)
\* Every rule of the catalog, from the k-th on, that matches the entry, in catalog order.
classify(entry, k) ==
    IF k > Len(patterns) THEN <<>>
    ELSE (IF rule_matches(patterns[k], entry)
          THEN <<[name |-> patterns[k].name, severity |-> patterns[k].severity]>>
          ELSE <<>>) \o classify(entry, k + 1)

\* agent.analyze_entry(entry).
analyze_entry(entry) == classify(entry, 1)

(***************************************************************************)
(* The input lines of parse_log_entry: each is assembled from parts, and   *)
(* each part records what it is (a well-formed field or a malformed one).  *)
(***************************************************************************)

\* Years the call may happen in: a common year and a leap year.
Years == {2023, 2024}

\* Years of Years that are leap years.
LeapYears == {2024}

\* A table entry's month, day and time name a calendar date-time of year y.
DateValid(ts, y) == ts.date = "valid" \/ (ts.date = "leap" /\ y \in LeapYears)

\* shape: the text has the form <3 letters> <1-2 digits> <dd:dd:dd>.
\* date: whether month, day and time name a calendar date-time ("leap": only in a
\* leap year).
Timestamps == {
    [text |-> "Dec 13 10:30:45", shape |-> TRUE, date |-> "valid"],
    [text |-> "dec  1 00:00:00", shape |-> TRUE, date |-> "valid"],
    [text |-> "Feb 29 23:59:59", shape |-> TRUE, date |-> "leap"],
    [text |-> "Foo 13 10:30:45", shape |-> TRUE, date |-> "invalid"],
    [text |-> "Dec 0 10:30:45", shape |-> TRUE, date |-> "invalid"],
    [text |-> "Dec 32 10:30:45", shape |-> TRUE, date |-> "invalid"],
    [text |-> "Apr 31 10:30:45", shape |-> TRUE, date |-> "invalid"],
    [text |-> "Dec 13 25:30:45", shape |-> TRUE, date |-> "invalid"],
    [text |-> "Dec 13 10:60:45", shape |-> TRUE, date |-> "invalid"],
    [text |-> "Dec 13 10:30:60", shape |-> TRUE, date |-> "invalid"],
    [text |-> "Dec 13 10:30", shape |-> FALSE, date |-> "valid"],
    [text |-> "December 13 10:30:45", shape |-> FALSE, date |-> "valid"],
    [text |-> "invalid log format", shape |-> FALSE, date |-> "invalid"] }

Hostnames == {"localhost", "h:1"}

Processes == {"sshd", "cron.d"}

\* digits: the text is a [digits] segment; value: the decimal value of its digits.
PidSegments == {
    [text |-> "", digits |-> FALSE, ok |-> TRUE, value |-> 0],
    [text |-> "[1234]", digits |-> TRUE, ok |-> TRUE, value |-> 1234],
    [text |-> "[007]", digits |-> TRUE, ok |-> TRUE, value |-> 7],
    [text |-> "[0]", digits |-> TRUE, ok |-> TRUE, value |-> 0],
    [text |-> "[]", digits |-> FALSE, ok |-> FALSE, value |-> 0],
    [text |-> "[12a]", digits |-> FALSE, ok |-> FALSE, value |-> 0],
    [text |-> "[12", digits |-> FALSE, ok |-> FALSE, value |-> 0] }

\* The separator after the process token (and pid segment): there, or missing.
Separators == {":", ""}

Gaps == {" ", ""}

\* auth: the message contains "authentication failure" in some letter case;
\* rule: the message holds an indicator of some rule of the catalog.
Messages == {
    [text |-> "authentication failure for user test", auth |-> TRUE, rule |-> TRUE],
    [text |-> "pam: Authentication FAILURE", auth |-> TRUE, rule |-> TRUE],
    [text |-> "disk full on /var", auth |-> FALSE, rule |-> TRUE],
    [text |-> "Started nginx.service", auth |-> FALSE, rule |-> FALSE],
    [text |-> "", auth |-> FALSE, rule |-> FALSE] }

Leading == {"", " \t"}

Trailing == {"", "\n", " \r\n"}

Gens == [ts : Timestamps, host : Hostnames, proc : Processes, pid : PidSegments,
         sep : Separators, gap : Gaps, msg : Messages, lead : Leading, trail : Trailing]

\* The line the parts make.
Assemble(g) ==
    g.lead \o g.ts.text \o " " \o g.host \o " " \o g.proc \o g.pid.text \o g.sep
        \o g.gap \o g.msg.text \o g.trail

(***************************************************************************)
(* The specification of the parser and the classifier: a line is drawn,    *)
(* parsed, and the entry (if any) is classified.                           *)
(***************************************************************************)

\* No coroutine of the agent is running.
NoRun ==
    /\ call = "none"
    /\ tail_lines = 0
    /\ file = [state |-> "missing", lines |-> <<>>]
    /\ pc = "off"
    /\ entries = <<>>
    /\ response_text = ""
    /\ n_msgs = 0
    /\ analysis = ""
    /\ report = None
    /\ queried = FALSE
    /\ console = {}
    /\ cancel_pending = FALSE
    /\ failure = {}
    /\ prev_failure = {}
    /\ query_error = ""
    /\ stopped_at = "none"

ParseInit ==
    /\ gen \in Gens
    /\ line = Assemble(gen)
    /\ year \in Years
    /\ result = None
    /\ matches = <<>>
    /\ ppc = "line"
    /\ NoRun

ParseLogEntry ==
    /\ ppc = "line"
    /\ result' = parse_log_entry(line, year)
    /\ ppc' = "parsed"
    /\ UNCHANGED <<gen, line, year, matches, avars>>

AnalyzeEntry ==
    /\ ppc = "parsed"
    /\ result.kind = "LogEntry"
    /\ matches' = analyze_entry(result)
    /\ ppc' = "classified"
    /\ UNCHANGED <<gen, line, year, result, avars>>

ParseNext == ParseLogEntry \/ AnalyzeEntry

ParseSpec == ParseInit /\ [][ParseNext]_vars

(***************************************************************************)
(* The file at syslog_path and read_syslog.                                *)
(***************************************************************************)

\* Lines a log file may hold, as readlines() returns them.  date: whether the line
\* parses ("leap": only when the current year is a leap year).
LogLines == {
    [text |-> "Dec 13 10:31:15 localhost systemd[1]: Started nginx.service\n",
     date |-> "valid"],
    [text |-> "Feb 29 10:31:00 localhost kernel: disk full on /var partition\n",
     date |-> "leap"],
    [text |-> "invalid log format\n", date |-> "invalid"] }

\* Whether a line of the file parses in year y, by the table of LogLines.
ParsesIn(text, y) ==
    \E l \in LogLines : l.text = text /\ DateValid(l, y)

\* The longest file of the model, in lines.
MaxLines == 2

\* The largest tail_lines an explicit call passes.
MaxTail == 2

\* The default of tail_lines.
DefaultTailLines == 100

FileContents == UNION {[1..k -> {l.text : l \in LogLines}] : k \in 0..MaxLines}

\* state: "missing" (no such path), "noaccess" (a directory of the path may not be
\* searched: stat fails with EACCES, which Path.exists() raises as PermissionError),
\* "denied" (the file may not be read: open raises PermissionError), "error" (open or
\* readlines raises another error, e.g. the path is a directory), "ok".
Files ==
    {[state |-> s, lines |-> <<>>] : s \in {"missing", "noaccess", "denied", "error"}}
        \cup {[state |-> "ok", lines |-> c] : c \in FileContents}

\* seq[start:] of Python: a negative start counts from the end, and -0 is 0.
slice_from(seq, start) ==
    LET n == Len(seq)
        first == IF start < 0 THEN (IF n + start < 0 THEN 0 ELSE n + start)
                 ELSE (IF start > n THEN n ELSE start)
    IN  SubSeq(seq, first + 1, n)

\* lines[-tail_lines:] if len(lines) > tail_lines else lines
recent_lines(lines, n) == IF Len(lines) > n THEN slice_from(lines, 0 - n) ELSE lines

\* self.parse_log_entry(line) for the lines a file may hold, tabulated by year.
parsed_lines ==
    [y \in Years |-> [text \in {l.text : l \in LogLines} |-> parse_log_entry(text, y)]]

\* The body of read_syslog's try statement: open, readlines, and the parse loop.
read_body(f, n, y) ==
    LET recent == recent_lines(f.lines, n)
        parsed == [i \in DOMAIN recent |-> parsed_lines[y][recent[i]]]
    IN  IF f.state = "denied" THEN [kind |-> "raise", exc |-> "PermissionError"]
        ELSE IF f.state = "error" THEN [kind |-> "raise", exc |-> "OSError"]
        ELSE IF \E i \in DOMAIN parsed : parsed[i].kind \notin {"None", "LogEntry"}
        THEN [kind |-> "raise", exc |-> "ValueError"]
        ELSE [kind |-> "return", value |-> SelectSeq(parsed, LAMBDA e : e.kind = "LogEntry"),
              printed |-> {}]

\* except PermissionError: ... return []   except Exception as e: ... return []
except_read_errors(outcome) ==
    IF outcome.kind # "raise" THEN outcome
    ELSE IF outcome.exc = "PermissionError"
    THEN [kind |-> "return", value |-> <<>>,
          printed |-> {"Permission denied", "Try running with sudo"}]
    ELSE [kind |-> "return", value |-> <<>>, printed |-> {"Error reading syslog"}]

\* self.syslog_path.exists(): the answer, or the exception it raises.
path_exists(f) ==
    CASE f.state = "missing" -> [kind |-> "return", value |-> FALSE]
      [] f.state = "noaccess" -> [kind |-> "raise", exc |-> "PermissionError"]
      [] OTHER -> [kind |-> "return", value |-> TRUE]

\* SyslogAgent.read_syslog(tail_lines) on file f in year y: the exists() test stands
\* before the try statement, so what it raises leaves read_syslog.
read_syslog(f, n, y) ==
    IF path_exists(f).kind = "raise" THEN path_exists(f)
    ELSE IF ~path_exists(f).value
    THEN [kind |-> "return", value |-> <<>>, printed |-> {"Syslog file not found"}]
    ELSE except_read_errors(read_body(f, n, y))

(***************************************************************************)
(* analyze_with_claude and analyze_syslog.                                 *)
(***************************************************************************)

\* Most messages one response stream yields in the model.
MaxMsgs == 2

\* Messages the stream of query() may yield.
StreamMessages == {
    [type |-> "AssistantMessage",
     content |-> <<[type |-> "TextBlock", text |-> "## Critical Issues\n"]>>],
    [type |-> "AssistantMessage",
     content |-> <<[type |-> "ToolUseBlock", text |-> "ls"],
                   [type |-> "TextBlock", text |-> "Disk full detected"]>>],
    [type |-> "ResultMessage", content |-> <<>>] }

\* Messages of the exceptions a failing query() raises.
QueryErrors == {"API Error"}

RECURSIVE text_blocks(_, _)
\* for block in message.content: if isinstance(block, TextBlock): ... += block.text
text_blocks(content, k) ==
    IF k > Len(content) THEN ""
    ELSE (IF content[k].type = "TextBlock" THEN content[k].text ELSE "")
             \o text_blocks(content, k + 1)

\* What one message of the stream adds to response_text.
message_text(m) == IF m.type = "AssistantMessage" THEN text_blocks(m.content, 1) ELSE ""

\* A handler that gives back what was received before the failure.
partial_response(text, e) == [kind |-> "return", value |-> text]

\* except Exception as e: return f"Error analyzing with Claude: {e}"
on_query_exception(text, e) ==
    [kind |-> "return", value |-> "Error analyzing with Claude: " \o e]

\* entry.dict()
dict(entry) == [f \in DOMAIN entry \ {"kind"} |-> entry[f]]

\* The report of a run that found no entries.
empty_report == [total_entries |-> 0, analysis |-> "No entries found to analyze"]

\* A report that counts only the entries some rule of the catalog matches.
build_report_matched_only(es, text) ==
    [total_entries |-> Len(SelectSeq(es, LAMBDA e : analyze_entry(e) # <<>>)),
     analysis |-> text,
     entries |-> [i \in DOMAIN es |-> dict(es[i])]]

\* The report of a run that analyzed entries.
build_report(es, text) ==
    [total_entries |-> Len(es),
     analysis |-> text,
     entries |-> [i \in DOMAIN es |-> dict(es[i])]]

(***************************************************************************)
(* The coroutines, one action per step between two points where the       *)
(* coroutine can be suspended or interrupted.                              *)
(***************************************************************************)

\* The parser specification's variables, unused here.
NoParse ==
    /\ gen = [none |-> TRUE]
    /\ line = ""
    /\ result = None
    /\ matches = <<>>
    /\ ppc = "off"

Init ==
    /\ NoParse
    /\ year \in Years
    /\ file \in Files
    /\ call \in {"analyze_syslog", "monitor_syslog", "analyze_with_claude"}
    /\ tail_lines \in IF call = "analyze_syslog" THEN 0..MaxTail \cup {DefaultTailLines}
                      ELSE {DefaultTailLines}
    /\ pc = CASE call = "analyze_syslog" -> "start"
              [] call = "monitor_syslog" -> "monitor"
              [] call = "analyze_with_claude" -> "analyze"
    /\ entries = IF call = "analyze_with_claude"
                 THEN read_body([state |-> "ok", lines |-> file.lines], tail_lines, year).value
                 ELSE <<>>
    /\ response_text = ""
    /\ n_msgs = 0
    /\ analysis = ""
    /\ report = None
    /\ queried = FALSE
    /\ console = {}
    /\ cancel_pending = FALSE
    /\ failure = {}
    /\ prev_failure = {}
    /\ query_error = ""
    /\ stopped_at = "none"

\* monitor_syslog prints its banner and enters the loop.
MonitorSyslog ==
    /\ pc = "monitor"
    /\ console' = console \cup {"Starting continuous monitoring", "Press Ctrl+C to stop"}
    /\ pc' = "start"
    /\ UNCHANGED <<pvars, year, call, tail_lines, file, entries, response_text, n_msgs,
                   analysis, report, queried, cancel_pending, failure, prev_failure,
                   query_error, stopped_at>>

\* analyze_syslog is entered: its locals are fresh.
AnalyzeSyslog ==
    /\ pc = "start"
    /\ console' = {"Reading last"}
    /\ entries' = <<>>
    /\ response_text' = ""
    /\ n_msgs' = 0
    /\ analysis' = ""
    /\ report' = None
    /\ queried' = FALSE
    /\ failure' = {}
    /\ query_error' = ""
    /\ pc' = "read"
    /\ UNCHANGED <<pvars, year, call, tail_lines, file, cancel_pending, prev_failure,
                   stopped_at>>

\* What read_syslog gives in the current state.
read_now == read_syslog(file, tail_lines, year)

\* What fails in a read of the current file: the source, or a line of it.
read_failures ==
    (IF file.state # "ok" THEN {"unavailable"} ELSE {})
        \cup (IF \E i \in DOMAIN file.lines : ~ParsesIn(file.lines[i], year)
              THEN {"malformed"} ELSE {})

\* entries = await self.read_syslog(tail_lines); an exception of read_syslog leaves
\* analyze_syslog and monitor_syslog, whose except clause names KeyboardInterrupt only.
ReadSyslog ==
    /\ pc = "read"
    /\ pc' = IF read_now.kind = "raise" THEN "crashed" ELSE "have_entries"
    /\ entries' = IF read_now.kind = "raise" THEN entries ELSE read_now.value
    /\ console' = IF read_now.kind = "raise" THEN console ELSE console \cup read_now.printed
    /\ failure' = failure \cup read_failures
    /\ UNCHANGED <<pvars, year, call, tail_lines, file, response_text, n_msgs, analysis,
                   report, queried, cancel_pending, prev_failure, query_error, stopped_at>>

\* if not entries: return {"total_entries": 0, ...}
NoEntries ==
    /\ pc = "have_entries"
    /\ entries = <<>>
    /\ report' = empty_report
    /\ pc' = "returned"
    /\ UNCHANGED <<pvars, year, call, tail_lines, file, entries, response_text, n_msgs,
                   analysis, queried, console, cancel_pending, failure, prev_failure,
                   query_error, stopped_at>>

\* Entries were found: analyze_with_claude is called with them.
FoundEntries ==
    /\ pc = "have_entries"
    /\ entries # <<>>
    /\ console' = console \cup {"Found entries"}
    /\ pc' = "analyze"
    /\ UNCHANGED <<pvars, year, call, tail_lines, file, entries, response_text, n_msgs,
                   analysis, report, queried, cancel_pending, failure, prev_failure,
                   query_error, stopped_at>>

\* analyze_with_claude([]): if not entries: return "No log entries to analyze."
AnalyzeNothing ==
    /\ pc = "analyze"
    /\ entries = <<>>
    /\ analysis' = "No log entries to analyze."
    /\ pc' = "analyzed"
    /\ UNCHANGED <<pvars, year, call, tail_lines, file, entries, response_text, n_msgs,
                   report, queried, console, cancel_pending, failure, prev_failure,
                   query_error, stopped_at>>

\* The prompt is built and query(prompt=prompt) gives the response stream.
QueryStarts ==
    /\ pc = "analyze"
    /\ entries # <<>>
    /\ queried' = TRUE
    /\ response_text' = ""
    /\ pc' = "stream"
    /\ UNCHANGED <<pvars, year, call, tail_lines, file, entries, n_msgs, analysis, report,
                   console, cancel_pending, failure, prev_failure, query_error, stopped_at>>

\* What a failure of query() with message e does to the coroutine.
QueryFails(e) ==
    /\ LET r == on_query_exception(response_text, e)
       IN  IF r.kind = "raise"
           THEN pc' = "crashed" /\ UNCHANGED analysis
           ELSE pc' = "analyzed" /\ analysis' = r.value
    /\ query_error' = e
    /\ failure' = failure \cup {"summarizer"}

\* The prompt is built and the call query(prompt=prompt) itself raises.
QueryRaises ==
    /\ pc = "analyze"
    /\ entries # <<>>
    /\ queried' = TRUE
    /\ response_text' = ""
    /\ \E e \in QueryErrors : QueryFails(e)
    /\ UNCHANGED <<pvars, year, call, tail_lines, file, entries, n_msgs, report, console,
                   cancel_pending, prev_failure, stopped_at>>

\* async for message in query(...): one message arrives.
StreamYields ==
    /\ pc = "stream"
    /\ ~cancel_pending
    /\ n_msgs < MaxMsgs
    /\ \E m \in StreamMessages : response_text' = response_text \o message_text(m)
    /\ n_msgs' = n_msgs + 1
    /\ UNCHANGED <<pvars, year, call, tail_lines, file, pc, entries, analysis, report,
                   queried, console, cancel_pending, failure, prev_failure, query_error,
                   stopped_at>>

\* The stream raises while it is consumed.
StreamRaises ==
    /\ pc = "stream"
    /\ ~cancel_pending
    /\ \E e \in QueryErrors : QueryFails(e)
    /\ UNCHANGED <<pvars, year, call, tail_lines, file, entries, response_text, n_msgs,
                   report, queried, console, cancel_pending, prev_failure, stopped_at>>

\* The stream ends: return response_text.
StreamEnds ==
    /\ pc = "stream"
    /\ ~cancel_pending
    /\ analysis' = response_text
    /\ pc' = "analyzed"
    /\ UNCHANGED <<pvars, year, call, tail_lines, file, entries, response_text, n_msgs,
                   report, queried, console, cancel_pending, failure, prev_failure,
                   query_error, stopped_at>>

\* analyze_syslog prints the analysis and returns the report.
Display ==
    /\ pc = "analyzed"
    /\ call # "analyze_with_claude"
    /\ console' = console \cup {"Analysis header", "Analysis markdown"}
    /\ report' = build_report(entries, analysis)
    /\ pc' = "returned"
    /\ UNCHANGED <<pvars, year, call, tail_lines, file, entries, response_text, n_msgs,
                   analysis, queried, cancel_pending, failure, prev_failure, query_error,
                   stopped_at>>

\* analyze_syslog has returned to the loop, which drops its result, prints that it
\* waits and calls asyncio.sleep(interval).
Wait ==
    /\ pc = "returned"
    /\ call = "monitor_syslog"
    /\ console' = console \cup {"Waiting"}
    /\ entries' = <<>>
    /\ response_text' = ""
    /\ n_msgs' = 0
    /\ analysis' = ""
    /\ report' = None
    /\ queried' = FALSE
    /\ prev_failure' = failure
    /\ failure' = {}
    /\ query_error' = ""
    /\ pc' = "sleep"
    /\ UNCHANGED <<pvars, year, call, tail_lines, file, cancel_pending, stopped_at>>

\* The sleep is over: the next iteration.
Wake ==
    /\ pc = "sleep"
    /\ ~cancel_pending
    /\ pc' = "start"
    /\ UNCHANGED <<pvars, year, call, tail_lines, file, entries, response_text, n_msgs,
                   analysis, report, queried, console, cancel_pending, failure,
                   prev_failure, query_error, stopped_at>>

\* The environment: while the loop sleeps the log is written, rotated or removed.
LogChanges ==
    /\ pc = "sleep"
    /\ file' \in Files \ {file}
    /\ UNCHANGED <<pvars, year, call, tail_lines, pc, entries, response_text, n_msgs,
                   analysis, report, queried, console, cancel_pending, failure,
                   prev_failure, query_error, stopped_at>>

\* Where the coroutine is suspended in an await.
AwaitPositions == {"stream", "sleep"}

\* Where the coroutine's own code runs.
SyncPositions == {"monitor", "start", "read", "have_entries", "analyze", "analyzed", "returned"}

\* The positions inside monitor_syslog's try statement.
TryPositions == {"start", "read", "have_entries", "analyze", "analyzed", "returned"}

\* The coroutine has not returned yet.
Running ==
    /\ pc \in AwaitPositions \cup SyncPositions
    /\ ~(call = "analyze_syslog" /\ pc = "returned")
    /\ ~(call = "analyze_with_claude" /\ pc = "analyzed")

\* Ctrl+C while the coroutine is suspended: CancelledError is thrown into it at the
\* await (or KeyboardInterrupt stops the event loop, which then cancels the task);
\* no except clause of the agent catches either.
InterruptAtAwait ==
    /\ Running
    /\ pc \in AwaitPositions
    /\ pc' = "aborted"
    /\ stopped_at' = pc
    /\ UNCHANGED <<pvars, year, call, tail_lines, file, entries, response_text, n_msgs,
                   analysis, report, queried, console, cancel_pending, failure,
                   prev_failure, query_error>>

\* Ctrl+C while the coroutine's code runs, taken by asyncio.run's handler: the task
\* is asked to cancel, which its next await delivers.
InterruptDeferred ==
    /\ Running
    /\ pc \in SyncPositions
    /\ ~cancel_pending
    /\ cancel_pending' = TRUE
    /\ UNCHANGED <<pvars, year, call, tail_lines, file, pc, entries, response_text, n_msgs,
                   analysis, report, queried, console, failure, prev_failure, query_error,
                   stopped_at>>

\* The await the coroutine reached raises the pending CancelledError.
CancelDelivered ==
    /\ pc \in AwaitPositions
    /\ cancel_pending
    /\ pc' = "aborted"
    /\ stopped_at' = pc
    /\ UNCHANGED <<pvars, year, call, tail_lines, file, entries, response_text, n_msgs,
                   analysis, report, queried, console, cancel_pending, failure,
                   prev_failure, query_error>>

\* Ctrl+C raises KeyboardInterrupt in the coroutine's running code: inside
\* monitor_syslog's try statement the except clause prints and the loop ends;
\* anywhere else the exception leaves the coroutine.
InterruptRaises ==
    /\ Running
    /\ pc \in SyncPositions
    /\ IF call = "monitor_syslog" /\ pc \in TryPositions
       THEN pc' = "stopped" /\ console' = console \cup {"Monitoring stopped"}
       ELSE pc' = "aborted" /\ UNCHANGED console
    /\ stopped_at' = pc
    /\ UNCHANGED <<pvars, year, call, tail_lines, file, entries, response_text, n_msgs,
                   analysis, report, queried, cancel_pending, failure, prev_failure,
                   query_error>>

\* The steps of the coroutine itself.
Program ==
    \/ MonitorSyslog
    \/ AnalyzeSyslog
    \/ ReadSyslog
    \/ NoEntries
    \/ FoundEntries
    \/ AnalyzeNothing
    \/ QueryStarts
    \/ QueryRaises
    \/ StreamYields
    \/ StreamRaises
    \/ StreamEnds
    \/ Display
    \/ Wait
    \/ Wake
    \/ CancelDelivered

\* What the environment does: signals and the log's writers.
Environment ==
    \/ LogChanges
    \/ InterruptAtAwait
    \/ InterruptDeferred
    \/ InterruptRaises

Next == Program \/ Environment

Spec == Init /\ [][Next]_vars

\* The event loop runs a coroutine that can run, the sleep ends, and the summarizer
\* answers, fails or ends its stream.
FairSpec == Spec /\ WF_vars(Program)

(***************************************************************************)
(* Properties of parse_log_entry and analyze_entry (under ParseSpec).      *)
(***************************************************************************)

\* The call of parse_log_entry has returned.
Parsed == ppc \in {"parsed", "classified"}

\* r is l without its leading and trailing whitespace: l is a run of whitespace, then
\* r, then a run of whitespace, and r neither starts nor ends with whitespace.
IsStripOf(r, l) ==
    \E a, b \in 0..Len(l) :
        /\ a + b <= Len(l)
        /\ r = SubSeq(l, a + 1, Len(l) - b)
        /\ \A i \in 1..a : Ch(l, i) \in Whitespace
        /\ \A i \in (Len(l) - b + 1)..Len(l) : Ch(l, i) \in Whitespace
        /\ Ch(r, 1) \notin Whitespace
        /\ Ch(r, Len(r)) \notin Whitespace

\* C1: whenever parse_log_entry returns a LogEntry, its raw_line is the input line
\* with the leading and trailing whitespace removed and nothing else changed.
C1_RawLineIsStrippedLine ==
    (Parsed /\ result.kind = "LogEntry") => IsStripOf(result.raw_line, line)

\* A line with whitespace on both sides was parsed into an entry.
C1_Witness ==
    /\ Parsed
    /\ result.kind = "LogEntry"
    /\ gen.lead # ""
    /\ gen.trail # ""
    /\ result.raw_line # line

\* C2 as claimed: for a parsed line the pid is absent exactly when the line has no
\* [digits] segment after the process token, and otherwise it is a positive integer,
\* the decimal value of the digits.
C2_PidPositive ==
    (Parsed /\ result.kind = "LogEntry") =>
        /\ (result.pid = NoPid) <=> ~gen.pid.digits
        /\ gen.pid.digits => (result.pid[1] > 0 /\ result.pid[1] = gen.pid.value)

\* C2 as amended: for a parsed line the pid is absent exactly when the line has no
\* [digits] segment after the process token, and otherwise it is a non-negative
\* integer, the decimal value of the digits (a [0] segment gives the pid 0).
C2_PidNonNegative ==
    (Parsed /\ result.kind = "LogEntry") =>
        /\ (result.pid = NoPid) <=> ~gen.pid.digits
        /\ gen.pid.digits => (result.pid[1] >= 0 /\ result.pid[1] = gen.pid.value)

\* A line with the segment [0] was parsed, and its entry holds the pid 0.
C2_Witness ==
    /\ Parsed
    /\ result.kind = "LogEntry"
    /\ gen.pid.text = "[0]"
    /\ result.pid = <<0>>

\* Nothing after the hostname can serve as the separator: the ":" is missing after
\* the process token and the message holds none.
LacksSeparator(g) == g.sep = "" /\ ~contains(g.msg.text, ":")

\* C3: for every line that lacks the separator, is otherwise not of the canonical
\* shape, or whose month, day and time are no calendar date-time of the current year,
\* parse_log_entry returns None: it neither returns an entry nor raises.
C3_NoMatchNeverRaises ==
    (/\ Parsed
     /\ \/ LacksSeparator(gen)
        \/ ~gen.ts.shape
        \/ ~gen.pid.ok
        \/ ~DateValid(gen.ts, year)) => result = None

\* A canonical line dated Feb 29 was parsed in a year that is no leap year.
C3_Witness ==
    /\ Parsed
    /\ gen.ts.text = "Feb 29 23:59:59"
    /\ year \notin LeapYears
    /\ gen.sep = ":"
    /\ gen.pid.ok
    /\ result = None

\* C6: classifying a parsed entry whose message contains "authentication failure" in
\* any letter case gives matches that include "Authentication Failure" with severity
\* error, and an entry no rule matches gives the empty sequence.
C6_AuthenticationFailureMatched ==
    ppc = "classified" =>
        /\ gen.msg.auth =>
              \E i \in DOMAIN matches :
                  matches[i].name = "Authentication Failure" /\ matches[i].severity = "error"
        /\ ~gen.msg.rule => matches = <<>>

\* An entry whose message spells the indicator in mixed case was classified.
C6_Witness ==
    /\ ppc = "classified"
    /\ gen.msg.text = "pam: Authentication FAILURE"
    /\ result.message = gen.msg.text
    /\ Len(matches) = 1

(***************************************************************************)
(* Properties of read_syslog, analyze_with_claude, analyze_syslog and      *)
(* monitor_syslog (under Spec and FairSpec).                               *)
(***************************************************************************)

\* How many of the lines parse in year y.
ValidCount(lines, y) == Cardinality({i \in DOMAIN lines : ParsesIn(lines[i], y)})

\* The last n lines (all of them when there are fewer than n).
LastLines(lines, n) ==
    SubSeq(lines, IF Len(lines) > n THEN Len(lines) - n + 1 ELSE 1, Len(lines))

\* C4: when the log file is missing or unreadable, read_syslog returns the empty list
\* and raises nothing, and analyze_syslog returns a report with total_entries = 0
\* without calling the summarizer.
C4_UnreadableFileGivesEmptyReport ==
    (call \in {"analyze_syslog", "monitor_syslog"} /\ file.state # "ok") =>
        /\ pc # "crashed"
        /\ pc = "have_entries" => entries = <<>>
        /\ pc = "returned" => (report.total_entries = 0 /\ ~queried)

\* C5: when query() fails, in the call or while its stream is consumed,
\* analyze_with_claude returns a text that contains "Error analyzing with Claude" and
\* the failure's message, and no exception reaches the caller; for an empty list it
\* returns "No log entries to analyze." without calling query().
C5_SummarizerFailureBecomesText ==
    /\ query_error # "" => pc # "crashed"
    /\ (pc = "analyzed" /\ query_error # "") =>
           /\ contains(analysis, "Error analyzing with Claude")
           /\ contains(analysis, query_error)
    /\ (pc = "analyzed" /\ entries = <<>>) =>
           (analysis = "No log entries to analyze." /\ ~queried)

\* The stream failed after it had delivered text, and analyze_with_claude returned.
C5_Witness ==
    /\ pc = "analyzed"
    /\ query_error # ""
    /\ response_text # ""
    /\ entries # <<>>

\* C7: the report's total_entries is the number of parsed entries handed to the
\* analysis: every line of the tail that parses counts, a line that does not parse
\* does not, and a run without entries reports 0 and lists no entries.
C7_TotalEntriesCountsParsedEntries ==
    (pc = "returned") =>
        /\ report.total_entries = Len(entries)
        /\ tail_lines > 0 =>
               report.total_entries = ValidCount(LastLines(file.lines, tail_lines), year)
        /\ entries = <<>> => (report.total_entries = 0 /\ "entries" \notin DOMAIN report)
        /\ entries # <<>> => Len(report.entries) = report.total_entries

\* A file of a line that parses and a line that does not was reported with one entry.
C7_Witness ==
    /\ pc = "returned"
    /\ Len(file.lines) = 2
    /\ \E i \in DOMAIN file.lines : file.lines[i] = "invalid log format\n"
    /\ report.total_entries = 1

\* The coroutine ended on a stop request.
Stopped == pc \in {"stopped", "aborted"}

\* C8: in monitoring mode no failure of an iteration (a malformed line, an
\* unavailable log, a failed summarizer call) ends the loop; after such an iteration
\* the loop sleeps and then starts the next iteration, unless a stop request ends it;
\* and every iteration's report is that of the file and the summarizer's answer of
\* that iteration alone.
C8_LoopSurvivesFailedIteration ==
    /\ [](call = "monitor_syslog" => pc # "crashed")
    /\ []((call = "monitor_syslog" /\ pc = "returned") =>
             /\ report.total_entries = ValidCount(file.lines, year)
             /\ contains(report.analysis, "Error analyzing with Claude")
                    <=> ("summarizer" \in failure))
    /\ (call = "monitor_syslog" /\ pc = "returned" /\ failure # {})
           ~> ((pc = "sleep" /\ prev_failure # {}) \/ Stopped)
    /\ (call = "monitor_syslog" /\ pc = "sleep" /\ prev_failure # {})
           ~> ((pc = "start" /\ prev_failure # {}) \/ Stopped)

\* Between two iterations: the last one has returned and the next has read nothing.
IterationBoundary == {"returned", "sleep", "start"}

\* C9: a stop request that ends the entered monitoring loop ends it at an iteration
\* boundary, never inside an iteration's read, parse or analyze step, and the loop
\* ends normally, printing "Monitoring stopped", not by an exception.
C9_StopOnlyAtIterationBoundary ==
    (call = "monitor_syslog" /\ Stopped /\ stopped_at # "monitor") =>
        /\ stopped_at \in IterationBoundary
        /\ pc = "stopped"
        /\ "Monitoring stopped" \in console

\* C10: read_syslog(N) returns the parsed entries of the last N lines of the file, in
\* file order, never more than N of them.
C10_ReadsLastNLines ==
    (pc = "have_entries" /\ file.state = "ok") =>
        LET tail == LastLines(file.lines, tail_lines)
            parsed == [i \in DOMAIN tail |-> parse_log_entry(tail[i], year)]
        IN  /\ Len(entries) <= tail_lines
            /\ entries = SelectSeq(parsed, LAMBDA e : e.kind = "LogEntry")

====
